---------------------------- MODULE Spec2Model ----------------------------
(***************************************************************************)
(* Model of the SLSTK3400A-ADXL362 firmware (main.c): the boot sequence,   *)
(* the wake sources (PB0, PB1, ADXL_INT1, RTC compare), the Event Flag     *)
(* `triggered` and the foreground loop that alternates between EM0         *)
(* (Active) and EM2 (Sleeping).                                            *)
(*                                                                         *)
(* The foreground is a program counter `pc` over the statements of main(). *)
(* Interrupt handlers run to completion between two foreground statements  *)
(* (single core, handlers are never masked by the foreground), so each     *)
(* handler invocation is one atomic step that leaves `pc` unchanged.       *)
(***************************************************************************)
EXTENDS Integers, Sequences, FiniteSets

(* Number of SysTick ticks the blocking liveness delay waits for.  The      *)
(* firmware waits Delay(1000); the model waits DelayTicks ticks.            *)
DelayTicks == 2

(* The event and status-read counters of the properties stop counting at   *)
(* MaxCount.                                                                *)
MaxCount == 3

(* Largest compare value the timer is configured with in RtcSpec. *)
MaxCompare == 3

(* main.c:49-51 *)
DELAY_RTC == 60
LFXOFREQ == 32768
COMPARE_RTC == DELAY_RTC * LFXOFREQ

(* The RTC counter and its compare registers are 24 bits wide. *)
RTC_MODULUS == 2 ^ 24

(* RTC_CompareSet(0, value): the value as the compare register holds it. *)
RTC_CompareSet(value) == value % RTC_MODULUS

Min(a, b) == IF a < b THEN a ELSE b

Buttons == {"PB0", "PB1"}
Lines == Buttons \cup {"INT1"}
Sources == Lines \cup {"RTC"}

(* The register-level sensor operations main() calls, in boot order. *)
BootOps == <<"reset", "range", "odr", "activity", "measure">>

VARIABLES
    pc,              \* next statement of main() the foreground executes
    power,           \* "Active" (EM0) or "Sleeping" (EM2)
    triggered,       \* the Event Flag
    systickEnabled,  \* SysTick interrupts enabled
    delayLeft,       \* ticks the running Delay() still waits for
    rtcArmed,        \* RTC running with COMP0 interrupt enabled
    rtcCompare,      \* value of RTC compare register 0
    intCfg,          \* per GPIO line: [rising, falling, enable]
    level,           \* per GPIO line: current pin level
    vccOn,           \* accelerometer powered
    spiInit,         \* USART0 initialised as SPI
    spiPinsEnabled,  \* SPI pins enabled
    busBusy,         \* sensor operation whose bus transaction is in progress
    writeLog,        \* sensor register-write operations issued so far
    measuring,       \* sensor in measurement mode
    led0,            \* liveness LED
    dbgInit,         \* debug UART initialised
    \* history variables (observers, not read by the program)
    ctx,             \* context that took the last step: "main", "irq", "env"
    lastOp,          \* last statement the foreground completed
    irqSinceRead,    \* a flag-setting handler ran since the last status read began
    acks,            \* status reads begun in the current loop iteration
    flagAtTop,       \* value of the Event Flag at the top of the iteration
    irqInIter,       \* a flag-setting handler ran since the top of the iteration
    wokenBy,         \* source of the last wake from EM2 ("none" before any)
    nIrq,            \* flag-setting handler invocations so far (up to MaxCount)
    nRead,           \* status reads begun so far (up to MaxCount)
    irqSinceTest,    \* a flag-setting handler ran since the last flag test
    irqSinceClear,   \* a flag-setting handler ran since the last clear
    bootIrq,         \* a flag-setting handler ran before the loop started
    blinks,          \* led0(true) calls since the last wake (up to MaxCount)
    \* the periodic timer
    compareInput,    \* compare value the timer is configured with
    rtcCnt,          \* RTC counter
    rtcComp0Top,     \* the counter restarts on a compare match
    sinceIrq         \* ticks since the last compare interrupt (observer)

hw == <<systickEnabled, delayLeft, rtcArmed, rtcCompare, intCfg, vccOn, spiInit,
        spiPinsEnabled, led0, dbgInit>>
sensor == <<busBusy, writeLog, measuring>>
hist == <<irqSinceRead, acks, flagAtTop, irqInIter, wokenBy>>
obs == <<nIrq, nRead, irqSinceTest, irqSinceClear, bootIrq, blinks>>
rtc == <<compareInput, rtcCnt, rtcComp0Top, sinceIrq>>
vars == <<pc, power, triggered, hw, level, sensor, ctx, lastOp, hist, obs, rtc>>

Disarmed == [rising |-> FALSE, falling |-> FALSE, enable |-> FALSE]

(* The state at reset, with the timer interval the build is configured with. *)
InitWith(compare) ==
    /\ pc = "chip_init"
    /\ power = "Active"
    /\ triggered = FALSE
    /\ systickEnabled = FALSE
    /\ delayLeft = 0
    /\ rtcArmed = FALSE
    /\ rtcCompare = 0
    /\ intCfg = [l \in Lines |-> Disarmed]
    /\ level = [l \in Lines |-> IF l \in Buttons THEN 1 ELSE 0]
    /\ vccOn = FALSE
    /\ spiInit = FALSE
    /\ spiPinsEnabled = FALSE
    /\ busBusy = "none"
    /\ writeLog = <<>>
    /\ measuring = FALSE
    /\ led0 = FALSE
    /\ dbgInit = FALSE
    /\ ctx = "main"
    /\ lastOp = "reset_vector"
    /\ irqSinceRead = FALSE
    /\ acks = 0
    /\ flagAtTop = FALSE
    /\ irqInIter = FALSE
    /\ wokenBy = "none"
    /\ nIrq = 0
    /\ nRead = 0
    /\ irqSinceTest = FALSE
    /\ irqSinceClear = FALSE
    /\ bootIrq = FALSE
    /\ blinks = 0
    /\ compareInput = compare
    /\ rtcCnt = 0
    /\ rtcComp0Top = FALSE
    /\ sinceIrq = 0

(* main.c:49-51: the build's compare value is COMPARE_RTC. *)
Init == InitWith(COMPARE_RTC)

(* The timer configured with any compare value from the minimum of 1 tick. *)
InitRtc == \E c \in 1..MaxCompare : InitWith(c)

LoopLabels ==
    {"led_on", "delay", "delay_wait", "led_off", "test", "read_status",
     "read_busy", "clear", "dbinfo", "systick_off", "spi_off", "em2", "spi_on",
     "systick_on"}

PcLabels ==
    {"chip_init", "systick_config", "halt", "init_rtc", "gpio_modes",
     "gpio_pb0", "gpio_pb1", "gpio_int1", "dbprint_init", "init_vcc",
     "init_spi", "init_leds", "reset", "reset_busy", "range", "range_busy",
     "odr", "odr_busy", "activity", "activity_busy", "measure",
     "measure_busy", "dbprintln", "led_on", "delay", "delay_wait", "led_off",
     "test", "read_status", "read_busy", "clear", "dbinfo", "systick_off",
     "spi_off", "em2", "spi_on", "systick_on"}

TypeOK ==
    /\ pc \in PcLabels
    /\ power \in {"Active", "Sleeping"}
    /\ triggered \in BOOLEAN
    /\ systickEnabled \in BOOLEAN
    /\ delayLeft \in 0..DelayTicks
    /\ rtcArmed \in BOOLEAN
    /\ rtcCompare \in {0, COMPARE_RTC} \cup 1..MaxCompare
    /\ intCfg \in [Lines -> [rising : BOOLEAN, falling : BOOLEAN, enable : BOOLEAN]]
    /\ level \in [Lines -> {0, 1}]
    /\ vccOn \in BOOLEAN /\ spiInit \in BOOLEAN /\ spiPinsEnabled \in BOOLEAN
    /\ busBusy \in {"none", "status"} \cup {BootOps[i] : i \in 1..Len(BootOps)}
    /\ Len(writeLog) <= Len(BootOps)
    /\ measuring \in BOOLEAN /\ led0 \in BOOLEAN /\ dbgInit \in BOOLEAN
    /\ ctx \in {"main", "irq", "env"}
    /\ lastOp \in PcLabels \cup {"reset_vector"}
    /\ irqSinceRead \in BOOLEAN /\ flagAtTop \in BOOLEAN /\ irqInIter \in BOOLEAN
    /\ acks \in 0..1
    /\ wokenBy \in Sources \cup {"none"}
    /\ nIrq \in 0..MaxCount /\ nRead \in 0..MaxCount /\ blinks \in 0..MaxCount
    /\ irqSinceTest \in BOOLEAN /\ irqSinceClear \in BOOLEAN /\ bootIrq \in BOOLEAN
    /\ compareInput \in {COMPARE_RTC} \cup 1..MaxCompare
    /\ rtcCnt \in 0..MaxCompare /\ sinceIrq \in 0..MaxCompare
    /\ rtcComp0Top \in BOOLEAN

-----------------------------------------------------------------------------
(* Interrupt side.                                                          *)

(* em_gpio GPIO_IntConfig(port, pin, risingEdge, fallingEdge, enable): an   *)
(* edge from level `old` to level `new` on line l raises its interrupt.     *)
Armed(l, old, new) ==
    /\ intCfg[l].enable
    /\ \/ intCfg[l].rising /\ old = 0 /\ new = 1
       \/ intCfg[l].falling /\ old = 1 /\ new = 0

(* Body of GPIO_EVEN_IRQHandler, GPIO_ODD_IRQHandler and RTC_IRQHandler:    *)
(* raise the Event Flag and return.                                         *)
IRQHandler ==
    triggered' = TRUE

(* An interrupt from source src is taken: the core leaves EM2 if it was in  *)
(* it, the handler runs to completion, the foreground resumes where it was. *)
InterruptEntry(src) ==
    /\ IRQHandler
    /\ power' = "Active"
    /\ ctx' = "irq"
    /\ irqSinceRead' = TRUE
    /\ irqInIter' = TRUE
    /\ wokenBy' = IF power = "Sleeping" THEN src ELSE wokenBy
    /\ nIrq' = Min(nIrq + 1, MaxCount)
    /\ irqSinceTest' = TRUE
    /\ irqSinceClear' = TRUE
    /\ bootIrq' = (bootIrq \/ pc \notin LoopLabels)
    /\ blinks' = IF power = "Sleeping" THEN 0 ELSE blinks
    /\ UNCHANGED <<acks, flagAtTop, nRead>>

(* An edge the GPIO block is not armed for: nothing reaches the core. *)
NoInterrupt ==
    /\ ctx' = "env"
    /\ UNCHANGED <<triggered, power, hist, obs>>

(* A button is pressed (1 -> 0) or released (0 -> 1). *)
ButtonEdge(b) ==
    /\ level' = [level EXCEPT ![b] = 1 - level[b]]
    /\ IF Armed(b, level[b], 1 - level[b]) THEN InterruptEntry(b) ELSE NoInterrupt
    /\ UNCHANGED <<pc, hw, sensor, lastOp, rtc>>

(* The sensor detects activity and latches INT1 high.  It does so only in   *)
(* measurement mode with the activity detection configured, and the line    *)
(* stays high until the status register is read.                            *)
MotionDetected ==
    /\ vccOn
    /\ measuring
    /\ \E i \in 1..Len(writeLog) : writeLog[i] = "activity"
    /\ level["INT1"] = 0
    /\ level' = [level EXCEPT !["INT1"] = 1]
    /\ IF Armed("INT1", 0, 1) THEN InterruptEntry("INT1") ELSE NoInterrupt
    /\ UNCHANGED <<pc, hw, sensor, lastOp, rtc>>

(* The RTC counter reaches compare value 0 (it runs in EM0 and in EM2). *)
RTC_Compare ==
    /\ rtcArmed
    /\ InterruptEntry("RTC")
    /\ UNCHANGED <<pc, hw, level, sensor, lastOp, rtc>>

(* One tick of the LFXO: the RTC counter counts (in EM0 and in EM2).  When  *)
(* it reaches the compare value the COMP0 interrupt is raised and, with     *)
(* comp0Top, the counter restarts from 0.                                   *)
RTC_Tick ==
    /\ rtcArmed
    /\ LET next == (rtcCnt + 1) % RTC_MODULUS IN
       IF next = rtcCompare
         THEN /\ rtcCnt' = IF rtcComp0Top THEN 0 ELSE next
              /\ sinceIrq' = 0
              /\ InterruptEntry("RTC")
         ELSE /\ rtcCnt' = next
              /\ sinceIrq' = sinceIrq + 1
              /\ NoInterrupt
    /\ UNCHANGED <<pc, hw, level, sensor, lastOp, compareInput, rtcComp0Top>>

(* SysTick_Handler: counts a millisecond.  The SysTick timer is clocked     *)
(* from the core clock, which is stopped in EM2.  The running Delay() has   *)
(* one tick less to wait for.                                               *)
SysTick_Handler ==
    /\ systickEnabled
    /\ power = "Active"
    /\ delayLeft > 0
    /\ delayLeft' = delayLeft - 1
    /\ ctx' = "irq"
    /\ UNCHANGED <<pc, power, triggered, systickEnabled, rtcArmed, rtcCompare,
                   intCfg, vccOn, spiInit, spiPinsEnabled, led0, dbgInit,
                   level, sensor, lastOp, hist, obs, rtc>>

-----------------------------------------------------------------------------
(* Foreground: main().                                                      *)

(* The foreground executes statement `from` and continues at `to`.  It only *)
(* runs while the core is in EM0.                                           *)
Fg(from, to) ==
    /\ pc = from
    /\ power = "Active"
    /\ pc' = to
    /\ ctx' = "main"
    /\ lastOp' = from

(* main.c:131 *)
ChipInit ==
    /\ Fg("chip_init", "systick_config")
    /\ UNCHANGED <<power, triggered, hw, level, sensor, hist, obs, rtc>>

(* CMSIS SysTick_Config: 0 on success (SysTick interrupt enabled), 1 when   *)
(* the reload value does not fit (nothing is configured).                   *)
SysTickConfigFailFallsThrough(rc) ==
    /\ Fg("systick_config", "init_rtc")
    /\ systickEnabled' = (rc = 0)
    /\ UNCHANGED <<power, triggered, delayLeft, rtcArmed, rtcCompare, intCfg, vccOn,
                   spiInit, spiPinsEnabled, led0, dbgInit, level, sensor, hist, obs, rtc>>

(* main.c:134  if (SysTick_Config(...)) while (1); *)
SysTickConfig(rc) ==
    /\ Fg("systick_config", IF rc # 0 THEN "halt" ELSE "init_rtc")
    /\ systickEnabled' = (rc = 0)
    /\ UNCHANGED <<power, triggered, delayLeft, rtcArmed, rtcCompare, intCfg, vccOn,
                   spiInit, spiPinsEnabled, led0, dbgInit, level, sensor, hist, obs, rtc>>

(* main.c:134  while (1); *)
Halt ==
    /\ pc = "halt"
    /\ power = "Active"
    /\ ctx' = "main"
    /\ UNCHANGED <<pc, power, triggered, hw, level, sensor, lastOp, hist, obs, rtc>>

(* initRTCcomp with the COMP0 interrupt enabled or not (main.c:110-112)   *)
(* and RTC_Init with comp0Top or not (main.c:115-118).                      *)
InitRTCcompWith(irqEnabled, comp0Top) ==
    /\ Fg("init_rtc", "gpio_modes")
    /\ rtcCompare' = RTC_CompareSet(compareInput)
    /\ rtcArmed' = irqEnabled
    /\ rtcComp0Top' = comp0Top
    /\ UNCHANGED <<power, triggered, systickEnabled, delayLeft, intCfg, vccOn,
                   spiInit, spiPinsEnabled, led0, dbgInit, level, sensor, hist,
                   obs, compareInput, rtcCnt, sinceIrq>>

InitRTCcompNotArmed == InitRTCcompWith(FALSE, TRUE)

InitRTCcompFreeRunning == InitRTCcompWith(TRUE, FALSE)

(* main.c:137, initRTCcomp (92-119): clocks, compare value, COMP0 interrupt *)
(* enabled, RTC started with RTC_INIT_DEFAULT (the counter restarts on a    *)
(* compare match).  The counter starts with RTC_Init, the last call.        *)
InitRTCcomp == InitRTCcompWith(TRUE, TRUE)

(* initGPIOwakeup, main.c:65-78: GPIO clock, pin modes, NVIC lines. *)
GPIOwakeupModes ==
    /\ Fg("gpio_modes", "gpio_pb0")
    /\ UNCHANGED <<power, triggered, hw, level, sensor, hist, obs, rtc>>

(* GPIO_IntConfig(port, pin, risingEdge, fallingEdge, enable) *)
GPIO_IntConfig(from, to, l, rising, falling, enable) ==
    /\ Fg(from, to)
    /\ intCfg' = [intCfg EXCEPT ![l] =
                     [rising |-> rising, falling |-> falling, enable |-> enable]]
    /\ UNCHANGED <<power, triggered, systickEnabled, delayLeft, rtcArmed, rtcCompare,
                   vccOn, spiInit, spiPinsEnabled, led0, dbgInit, level, sensor,
                   hist, obs, rtc>>

IntConfigPB0Rising == GPIO_IntConfig("gpio_pb0", "gpio_pb1", "PB0", TRUE, FALSE, TRUE)

(* main.c:81 *)
IntConfigPB0 == GPIO_IntConfig("gpio_pb0", "gpio_pb1", "PB0", FALSE, TRUE, TRUE)
(* main.c:82 *)
IntConfigPB1 == GPIO_IntConfig("gpio_pb1", "gpio_int1", "PB1", FALSE, TRUE, TRUE)
(* main.c:85 *)
IntConfigINT1 == GPIO_IntConfig("gpio_int1", "dbprint_init", "INT1", TRUE, FALSE, TRUE)

(* main.c:143 *)
DbprintInit ==
    /\ Fg("dbprint_init", "init_vcc")
    /\ dbgInit' = TRUE
    /\ UNCHANGED <<power, triggered, systickEnabled, delayLeft, rtcArmed, rtcCompare,
                   intCfg, vccOn, spiInit, spiPinsEnabled, led0, level, sensor,
                   hist, obs, rtc>>

(* main.c:148 *)
InitADXL_VCC ==
    /\ Fg("init_vcc", "init_spi")
    /\ vccOn' = TRUE
    /\ UNCHANGED <<power, triggered, systickEnabled, delayLeft, rtcArmed, rtcCompare,
                   intCfg, spiInit, spiPinsEnabled, led0, dbgInit, level, sensor,
                   hist, obs, rtc>>

(* main.c:151 *)
InitADXL_SPI ==
    /\ Fg("init_spi", "init_leds")
    /\ spiInit' = TRUE
    /\ spiPinsEnabled' = TRUE
    /\ UNCHANGED <<power, triggered, systickEnabled, delayLeft, rtcArmed, rtcCompare,
                   intCfg, vccOn, led0, dbgInit, level, sensor, hist, obs, rtc>>

(* main.c:154 *)
InitLEDS ==
    /\ Fg("init_leds", "reset")
    /\ led0' = FALSE
    /\ UNCHANGED <<power, triggered, systickEnabled, delayLeft, rtcArmed, rtcCompare,
                   intCfg, vccOn, spiInit, spiPinsEnabled, dbgInit, level,
                   sensor, hist, obs, rtc>>

-----------------------------------------------------------------------------
(* Sensor Bus Driver calls of main().  Each call is a bus transaction with  *)
(* a beginning (chip select asserted) and an end (chip select released);    *)
(* interrupts can be taken in between.                                      *)

(* A register-writing sensor operation begins. *)
WriteBegin(from, busy, op) ==
    /\ Fg(from, busy)
    /\ busBusy' = op
    /\ writeLog' = Append(writeLog, op)
    /\ UNCHANGED <<power, triggered, hw, level, measuring, hist, obs, rtc>>

(* A register-writing sensor operation ends.  The soft reset puts the       *)
(* sensor in standby with INT1 low; measureADXL(true) starts measuring.     *)
WriteEnd(busy, to, op) ==
    /\ Fg(busy, to)
    /\ busBusy' = "none"
    /\ measuring' = CASE op = "measure" -> TRUE
                      [] op = "reset" -> FALSE
                      [] OTHER -> measuring
    /\ level' = IF op = "reset" THEN [level EXCEPT !["INT1"] = 0] ELSE level
    /\ UNCHANGED <<power, triggered, hw, writeLog, hist, obs, rtc>>

(* main.c:157 *)
ResetHandlerADXL ==
    \/ WriteBegin("reset", "reset_busy", "reset")
    \/ WriteEnd("reset_busy", "range", "reset")

(* main.c:165 *)
ConfigADXL_range ==
    \/ WriteBegin("range", "range_busy", "range")
    \/ WriteEnd("range_busy", "odr", "range")

(* main.c:168 *)
ConfigADXL_ODR ==
    \/ WriteBegin("odr", "odr_busy", "odr")
    \/ WriteEnd("odr_busy", "activity", "odr")

ConfigADXL_activityAsMeasure ==
    \/ WriteBegin("activity", "activity_busy", "measure")
    \/ WriteEnd("activity_busy", "measure", "measure")

(* main.c:176 *)
ConfigADXL_activity ==
    \/ WriteBegin("activity", "activity_busy", "activity")
    \/ WriteEnd("activity_busy", "measure", "activity")

(* main.c:184 *)
MeasureADXL ==
    \/ WriteBegin("measure", "measure_busy", "measure")
    \/ WriteEnd("measure_busy", "dbprintln", "measure")

DbprintlnClearsFlag ==
    /\ Fg("dbprintln", "led_on")
    /\ triggered' = FALSE
    /\ UNCHANGED <<power, hw, level, sensor, hist, obs, rtc>>

(* main.c:187 *)
Dbprintln ==
    /\ Fg("dbprintln", "led_on")
    /\ UNCHANGED <<power, triggered, hw, level, sensor, hist, obs, rtc>>

-----------------------------------------------------------------------------
(* The loop of main(), main.c:190-215.                                      *)

(* main.c:192  led0(true): top of a loop iteration *)
Led0On ==
    /\ Fg("led_on", "delay")
    /\ led0' = TRUE
    /\ acks' = 0
    /\ flagAtTop' = triggered
    /\ irqInIter' = FALSE
    /\ blinks' = Min(blinks + 1, MaxCount)
    /\ UNCHANGED <<power, triggered, systickEnabled, delayLeft, rtcArmed,
                   rtcCompare, intCfg, vccOn, spiInit, spiPinsEnabled, dbgInit,
                   level, sensor, irqSinceRead, wokenBy, nIrq, nRead,
                   irqSinceTest, irqSinceClear, bootIrq, rtc>>

(* main.c:193  Delay(1000): starts waiting, returns once the ticks passed *)
Delay ==
    \/ /\ Fg("delay", "delay_wait")
       /\ delayLeft' = DelayTicks
       /\ UNCHANGED <<power, triggered, systickEnabled, rtcArmed, rtcCompare,
                      intCfg, vccOn, spiInit, spiPinsEnabled, led0, dbgInit,
                      level, sensor, hist, obs, rtc>>
    \/ /\ delayLeft = 0
       /\ Fg("delay_wait", "led_off")
       /\ UNCHANGED <<power, triggered, hw, level, sensor, hist, obs, rtc>>

Led0OffSkipped ==
    /\ Fg("led_off", "test")
    /\ UNCHANGED <<power, triggered, hw, level, sensor, hist, obs, rtc>>

(* main.c:194  led0(false) *)
Led0Off ==
    /\ Fg("led_off", "test")
    /\ led0' = FALSE
    /\ UNCHANGED <<power, triggered, systickEnabled, delayLeft, rtcArmed,
                   rtcCompare, intCfg, vccOn, spiInit, spiPinsEnabled, dbgInit,
                   level, sensor, hist, obs, rtc>>

TestTriggeredNever ==
    /\ Fg("test", "dbinfo")
    /\ irqSinceTest' = FALSE
    /\ UNCHANGED <<power, triggered, hw, level, sensor, hist, nIrq, nRead,
                   irqSinceClear, bootIrq, blinks, rtc>>

TestTriggeredAlways ==
    /\ Fg("test", "read_status")
    /\ irqSinceTest' = FALSE
    /\ UNCHANGED <<power, triggered, hw, level, sensor, hist, nIrq, nRead,
                   irqSinceClear, bootIrq, blinks, rtc>>

TestTriggeredNoAck ==
    /\ Fg("test", IF triggered THEN "clear" ELSE "dbinfo")
    /\ irqSinceTest' = FALSE
    /\ UNCHANGED <<power, triggered, hw, level, sensor, hist, nIrq, nRead,
                   irqSinceClear, bootIrq, blinks, rtc>>

(* main.c:198  if (triggered) *)
TestTriggered ==
    /\ Fg("test", IF triggered THEN "read_status" ELSE "dbinfo")
    /\ irqSinceTest' = FALSE
    /\ UNCHANGED <<power, triggered, hw, level, sensor, hist, nIrq, nRead,
                   irqSinceClear, bootIrq, blinks, rtc>>

(* main.c:200  readADXL(ADXL_REG_STATUS).  Reading the status register    *)
(* clears the sensor's latched interrupt: INT1 goes low.  That is a falling *)
(* edge; if the GPIO block is armed for it, its handler runs before the     *)
(* next statement.                                                          *)
ReadStatus ==
    \/ /\ Fg("read_status", "read_busy")
       /\ busBusy' = "status"
       /\ acks' = acks + 1
       /\ nRead' = Min(nRead + 1, MaxCount)
       /\ irqSinceRead' = FALSE
       /\ UNCHANGED <<power, triggered, hw, level, writeLog, measuring,
                      flagAtTop, irqInIter, wokenBy, nIrq, irqSinceTest,
                      irqSinceClear, bootIrq, blinks, rtc>>
    \/ /\ pc = "read_busy"
       /\ power = "Active"
       /\ pc' = "clear"
       /\ lastOp' = "read_busy"
       /\ busBusy' = "none"
       /\ level' = [level EXCEPT !["INT1"] = 0]
       /\ IF level["INT1"] = 1 /\ Armed("INT1", 1, 0)
             THEN InterruptEntry("INT1")
             ELSE ctx' = "main" /\ UNCHANGED <<power, triggered, hist, obs>>
       /\ UNCHANGED <<hw, writeLog, measuring, rtc>>

(* main.c:201  triggered = false *)
ClearTriggered ==
    /\ Fg("clear", "dbinfo")
    /\ triggered' = FALSE
    /\ irqSinceClear' = FALSE
    /\ UNCHANGED <<power, hw, level, sensor, hist, nIrq, nRead, irqSinceTest,
                   bootIrq, blinks, rtc>>

(* main.c:205 *)
Dbinfo ==
    /\ Fg("dbinfo", "systick_off")
    /\ UNCHANGED <<power, triggered, hw, level, sensor, hist, obs, rtc>>

(* util.c systickInterrupts(enabled) *)
SystickInterrupts(from, to, enabled) ==
    /\ Fg(from, to)
    /\ systickEnabled' = enabled
    /\ UNCHANGED <<power, triggered, delayLeft, rtcArmed, rtcCompare, intCfg,
                   vccOn, spiInit, spiPinsEnabled, led0, dbgInit, level, sensor,
                   hist, obs, rtc>>

(* accel.c enableSPIpinsADXL(enabled) *)
EnableSPIpinsADXL(from, to, enabled) ==
    /\ Fg(from, to)
    /\ spiPinsEnabled' = enabled
    /\ UNCHANGED <<power, triggered, systickEnabled, delayLeft, rtcArmed,
                   rtcCompare, intCfg, vccOn, spiInit, led0, dbgInit, level,
                   sensor, hist, obs, rtc>>

SystickOffSkipped == SystickInterrupts("systick_off", "spi_off", TRUE)

(* main.c:208  systickInterrupts(false) *)
SystickOff == SystickInterrupts("systick_off", "spi_off", FALSE)

(* main.c:209  enableSPIpinsADXL(false) *)
SPIpinsOff == EnableSPIpinsADXL("spi_off", "em2", FALSE)

EnterEM2NoSleep ==
    /\ Fg("em2", "spi_on")
    /\ UNCHANGED <<power, triggered, hw, level, sensor, hist, obs, rtc>>

(* main.c:211  EMU_EnterEM2(false): the core enters EM2 and the foreground  *)
(* stops until an interrupt is taken; it then resumes at main.c:213.        *)
EnterEM2 ==
    /\ Fg("em2", "spi_on")
    /\ power' = "Sleeping"
    /\ UNCHANGED <<triggered, hw, level, sensor, hist, obs, rtc>>

SPIpinsOnSkipped == EnableSPIpinsADXL("spi_on", "systick_on", FALSE)

(* main.c:213  enableSPIpinsADXL(true) *)
SPIpinsOn == EnableSPIpinsADXL("spi_on", "systick_on", TRUE)

SystickOnSkipped == SystickInterrupts("systick_on", "led_on", FALSE)

SystickOnRestartsMeasure == SystickInterrupts("systick_on", "measure", TRUE)

(* main.c:214  systickInterrupts(true) *)
SystickOn == SystickInterrupts("systick_on", "led_on", TRUE)

-----------------------------------------------------------------------------
Foreground ==
    \/ ChipInit
    \/ \E rc \in {0, 1} : SysTickConfig(rc)
    \/ Halt
    \/ InitRTCcomp
    \/ GPIOwakeupModes
    \/ IntConfigPB0
    \/ IntConfigPB1
    \/ IntConfigINT1
    \/ DbprintInit
    \/ InitADXL_VCC
    \/ InitADXL_SPI
    \/ InitLEDS
    \/ ResetHandlerADXL
    \/ ConfigADXL_range
    \/ ConfigADXL_ODR
    \/ ConfigADXL_activity
    \/ MeasureADXL
    \/ Dbprintln
    \/ Led0On
    \/ Delay
    \/ Led0Off
    \/ TestTriggered
    \/ ReadStatus
    \/ ClearTriggered
    \/ Dbinfo
    \/ SystickOff
    \/ SPIpinsOff
    \/ EnterEM2
    \/ SPIpinsOn
    \/ SystickOn

Interrupts ==
    \/ \E b \in Buttons : ButtonEdge(b)
    \/ MotionDetected
    \/ RTC_Compare
    \/ SysTick_Handler

Next == Foreground \/ Interrupts

Spec == Init /\ [][Next]_vars

(* The same system with the RTC counter counted tick by tick, for every     *)
(* compare value from 1 to MaxCompare.                                      *)
NextRtc ==
    \/ Foreground
    \/ \E b \in Buttons : ButtonEdge(b)
    \/ MotionDetected
    \/ RTC_Tick
    \/ SysTick_Handler

RtcSpec == InitRtc /\ [][NextRtc]_vars

(* The foreground keeps executing, SysTick keeps ticking while enabled and  *)
(* the RTC keeps reaching its compare value.                                *)
FairSpec ==
    /\ Init
    /\ [][Next]_vars
    /\ WF_vars(Foreground)
    /\ WF_vars(SysTick_Handler)
    /\ WF_vars(RTC_Compare)

-----------------------------------------------------------------------------
(* Properties.                                                              *)

InLoopBody == pc \in {"led_on", "delay", "delay_wait", "led_off", "test",
                      "read_status", "read_busy", "clear", "dbinfo"}
InLoop == InLoopBody \/ pc \in {"systick_off", "spi_off", "em2", "spi_on",
                                "systick_on"}
IsPrefix(s, t) == Len(s) <= Len(t) /\ \A i \in 1..Len(s) : s[i] = t[i]

(* C1: the core is never in EM2 (Sleeping) while the Event Flag is set.     *)
(* Violated: a handler that runs after the test at main.c:198 and before    *)
(* main.c:211 sets the flag, and EMU_EnterEM2 is executed all the same.     *)
C1_NeverSleepingWhileTriggered ==
    ~(power = "Sleeping" /\ triggered)

(* C2: whenever the foreground clears the Event Flag, no flag-setting       *)
(* handler has run since the status read that precedes the clear began.     *)
(* Violated: a handler that runs during the status read, or between it and  *)
(* main.c:201, is erased by the clear.                                      *)
C2_ClearErasesNoEvent ==
    [][(triggered /\ ~triggered') => ~irqSinceRead]_vars

(* C3: every invocation of a flag-setting handler is eventually followed by *)
(* the beginning of a status read (FairSpec: the foreground keeps running   *)
(* and the RTC keeps firing).                                               *)
C3_EveryEventEventuallyAcknowledged ==
    irqSinceRead ~> ~irqSinceRead

(* C3 witness: an event arrived in the sleep-preparation window, the core   *)
(* went to sleep with the flag set and the event not yet acknowledged.      *)
C3_Witness ==
    power = "Sleeping" /\ triggered /\ irqSinceRead

(* C4: an iteration that starts with the flag clear and sees no interrupt   *)
(* issues no status read before it reaches Sleeping, and reaches it; the    *)
(* sensor raising INT1 while Sleeping brings the core back to Active with   *)
(* the flag set; between a wake and the next sleep entry exactly one status *)
(* read is issued.                                                          *)
C4_SleepWakeScenario ==
    /\ [](power = "Sleeping" /\ ~flagAtTop /\ ~irqInIter => acks = 0)
    /\ [](power = "Sleeping" /\ wokenBy # "none" => acks = 1)
    /\ [][power = "Sleeping" /\ level["INT1"] = 0 /\ level'["INT1"] = 1
             => power' = "Active" /\ triggered' /\ wokenBy' = "INT1"]_vars
    /\ (pc = "led_on") ~> (power = "Sleeping")

(* C4 witness: woken by the motion line, one status read, asleep again. *)
C4_Witness ==
    power = "Sleeping" /\ wokenBy = "INT1" /\ acks = 1 /\ ~triggered

(* C5: while a sensor bus transaction is in progress the sensor is powered, *)
(* the SPI bus is initialised, its pins are enabled and the core is awake.  *)
C5_BusOnlyWhileEnabled ==
    busBusy # "none" => vccOn /\ spiInit /\ spiPinsEnabled /\ power = "Active"

(* C5 witness: a status read in progress after the pins were disabled for   *)
(* a sleep and the core was woken.                                          *)
C5_Witness ==
    busBusy = "status" /\ wokenBy # "none"

(* C6: the flag goes from clear to set only in a step of an interrupt       *)
(* handler, and from set to clear only in the foreground statement          *)
(* main.c:201, executed right after a completed status read of the same     *)
(* iteration.                                                               *)
C6_FlagWriteDiscipline ==
    [][/\ (~triggered /\ triggered') => ctx' = "irq" /\ pc' = pc
       /\ (triggered /\ ~triggered') =>
              /\ ctx' = "main"
              /\ pc = "clear"
              /\ lastOp = "read_busy"
              /\ busBusy = "none"
              /\ acks = 1]_vars

(* C6 witness: the foreground has just cleared the flag. *)
C6_Witness ==
    lastOp = "clear" /\ ctx = "main" /\ ~triggered /\ acks = 1

(* C7: the tick is disabled first, then the bus pins, then EM2 is entered;  *)
(* in EM2 both are disabled; after the wake the pins are re-enabled first,  *)
(* then the tick, and both are enabled in the loop body.                    *)
C7_PowerTransitionOrder ==
    /\ power = "Sleeping" => ~systickEnabled /\ ~spiPinsEnabled
    /\ lastOp = "systick_off" => ~systickEnabled /\ spiPinsEnabled
    /\ lastOp = "spi_off" => ~systickEnabled /\ ~spiPinsEnabled
    /\ lastOp = "em2" => ~systickEnabled /\ ~spiPinsEnabled
    /\ lastOp = "spi_on" => ~systickEnabled /\ spiPinsEnabled
    /\ lastOp = "systick_on" => systickEnabled /\ spiPinsEnabled
    /\ InLoopBody => systickEnabled /\ spiPinsEnabled

(* C7 witness: back at the flag test after a sleep and a wake. *)
C7_Witness ==
    pc = "test" /\ wokenBy # "none" /\ systickEnabled /\ spiPinsEnabled

(* C8: in EM2 all four wake sources are enabled, any interrupt taken in EM2 *)
(* returns the core to Active, and (FairSpec: the RTC keeps firing) the     *)
(* core never stays in EM2 forever.                                         *)
C8_SleepBoundedByTimer ==
    /\ [](InLoop => rtcArmed /\ \A l \in Lines : intCfg[l].enable)
    /\ [][power = "Sleeping" /\ ctx' = "irq" => power' = "Active"]_vars
    /\ (power = "Sleeping") ~> (power = "Active")

(* C8 witness: the RTC compare interrupt woke the core. *)
C8_Witness ==
    wokenBy = "RTC" /\ power = "Active" /\ lastOp = "em2"

(* C9: register accesses happen only with the sensor powered and the bus    *)
(* initialised; the writes are reset, range, output data rate, activity     *)
(* threshold, measurement enable, in this order; the configuration writes   *)
(* happen in standby; the loop starts with all of them done; INT1 is never  *)
(* raised before the configuration is complete.                             *)
C9_BootSensorOrder ==
    /\ busBusy # "none" => vccOn /\ spiInit
    /\ IsPrefix(writeLog, BootOps)
    /\ busBusy \in {"range", "odr", "activity"} => ~measuring
    /\ measuring => writeLog = BootOps
    /\ level["INT1"] = 1 => writeLog = BootOps
    /\ InLoop => writeLog = BootOps /\ measuring

(* C9 witness: the activity threshold is being written, after the reset. *)
C9_Witness ==
    busBusy = "activity" /\ writeLog = <<"reset", "range", "odr", "activity">>

(* C10: when SysTick_Config fails the foreground goes to the halt, where    *)
(* no wake source is configured, the sensor is untouched, and which no step *)
(* leaves or changes.                                                       *)
C10_FatalBootHalt ==
    /\ [][pc = "systick_config" /\ pc' # pc /\ ~systickEnabled' => pc' = "halt"]_vars
    /\ [](pc = "halt" =>
             /\ ~systickEnabled /\ ~rtcArmed
             /\ \A l \in Lines : ~intCfg[l].enable
             /\ ~vccOn /\ ~spiInit /\ busBusy = "none" /\ writeLog = <<>>
             /\ ~triggered /\ power = "Active")
    /\ [][pc = "halt" => pc' = "halt"]_vars

(* C10 witness: halted, and a button was pressed afterwards. *)
C10_Witness ==
    pc = "halt" /\ level["PB0"] = 0 /\ ~triggered

(* After initGPIOwakeup all three lines are configured. *)
GpioArmed == \A l \in Lines : intCfg[l].enable

(* The edges the wake lines are meant to react to: a button press (falling *)
(* edge), the sensor raising INT1 (rising edge).                            *)
WakeEdge(l, old, new) ==
    \/ l \in Buttons /\ old = 1 /\ new = 0
    \/ l = "INT1" /\ old = 0 /\ new = 1

(* C11: after initGPIOwakeup, a falling edge on a button line and a rising *)
(* edge on the motion line each cause exactly one handler invocation, which *)
(* sets the Event Flag; a rising edge on a button line and a falling edge   *)
(* on the motion line cause none and leave the flag unchanged.              *)
C11_EdgeSelection ==
    [][GpioArmed =>
         \A l \in Lines :
            level'[l] # level[l] =>
               IF WakeEdge(l, level[l], level'[l])
                 THEN triggered' /\ ctx' = "irq" /\ nIrq' = Min(nIrq + 1, MaxCount)
                 ELSE triggered' = triggered /\ ctx' # "irq" /\ nIrq' = nIrq]_vars

(* C11 witness: the first press of PB0 after initGPIOwakeup set the flag    *)
(* with one handler invocation.                                             *)
C11_Witness ==
    GpioArmed /\ level["PB0"] = 0 /\ triggered /\ ctx = "irq" /\ nIrq = 1

(* C12: a handler step changes nothing of the sensor bus; no transaction   *)
(* happens before initADXL_SPI; after an interrupt taken during boot the    *)
(* flag stays set until the first status read, so it is set at the first    *)
(* flag test, and the first sleep is preceded by exactly one status read.   *)
C12_BootInterruptOnlySetsFlag ==
    /\ [][ctx' = "irq" /\ pc' = pc =>
            UNCHANGED <<busBusy, writeLog, measuring, spiInit, spiPinsEnabled, vccOn>>]_vars
    /\ [](busBusy # "none" => spiInit)
    /\ [](bootIrq /\ nRead = 0 => triggered)
    /\ [](bootIrq /\ wokenBy = "none" /\ power = "Sleeping" => acks = 1 /\ nRead = 1)

(* C12 witness: an interrupt was taken before the bus was initialised. *)
C12_Witness ==
    bootIrq /\ ~spiInit /\ ~vccOn /\ triggered /\ busBusy = "none"

(* C14: once the loop has started the foreground stays in it, no sensor    *)
(* register write is issued any more and the only bus transaction is the    *)
(* status read.                                                             *)
C14_ConfigWrittenOnce ==
    /\ [](pc \in LoopLabels =>
             writeLog = BootOps /\ measuring /\ busBusy \in {"none", "status"})
    /\ [][(pc \in LoopLabels) =>
             pc' \in LoopLabels /\ writeLog' = writeLog /\ measuring' = measuring]_vars

(* C14 witness: a status read completed in an iteration after a wake. *)
C14_Witness ==
    pc = "clear" /\ wokenBy # "none" /\ writeLog = BootOps

(* C15: a flag test that follows one or more handler invocations since the *)
(* previous test goes to the status read, a test with no invocation since   *)
(* the last clear skips it; an iteration issues at most one status read,    *)
(* a clear comes with one; status reads never outnumber handler             *)
(* invocations (both counted up to MaxCount).                               *)
C15_EventsCollapsed ==
    /\ [][pc = "test" /\ pc' # pc =>
             /\ irqSinceTest => pc' = "read_status"
             /\ ~irqSinceClear => pc' = "dbinfo"]_vars
    /\ [](acks <= 1)
    /\ [](lastOp = "clear" => acks = 1)
    /\ [](nRead <= nIrq)

(* C15 witness: at least two handler invocations, one status read, one     *)
(* clear.                                                                   *)
C15_Witness ==
    nIrq >= 2 /\ nRead = 1 /\ lastOp = "clear" /\ ~triggered

(* C16: the compare value of the build is 60 * 32768 = 1966080 and fits    *)
(* the compare register; the register holds the configured value; for every *)
(* compare value from 1 tick on, a compare interrupt is raised exactly when *)
(* a whole interval has passed since the previous one (RtcSpec).            *)
C16_OneInterruptPerInterval ==
    /\ [](COMPARE_RTC = 1966080 /\ RTC_CompareSet(COMPARE_RTC) = COMPARE_RTC)
    /\ [](rtcArmed => rtcCompare = compareInput /\ sinceIrq < rtcCompare)
    /\ [][RTC_Tick =>
            ((triggered' /\ ctx' = "irq" /\ sinceIrq' = 0)
                <=> sinceIrq + 1 = rtcCompare)]_vars

(* C16 witness: configured with the minimum of 1 tick, the timer woke the  *)
(* core.                                                                    *)
C16_Witness ==
    compareInput = 1 /\ rtcCompare = 1 /\ wokenBy = "RTC" /\ triggered

(* C17: a handler step never moves the foreground; every iteration makes   *)
(* one liveness indication and at most one status read before it sleeps;    *)
(* from every point of the loop the core reaches EM2, and from EM2 it       *)
(* reaches the top of the loop again (FairSpec).                            *)
C17_LoopNeverStuck ==
    /\ [][ctx' = "irq" => pc' = pc]_vars
    /\ [](power = "Sleeping" => blinks = 1 /\ acks <= 1)
    /\ (pc \in LoopLabels) ~> (power = "Sleeping")
    /\ (power = "Sleeping") ~> (pc = "led_on" /\ power = "Active")

(* C17 witness: asleep again after an iteration that was woken, saw an     *)
(* interrupt and acknowledged it.                                           *)
C17_Witness ==
    power = "Sleeping" /\ wokenBy # "none" /\ irqInIter /\ blinks = 1 /\ acks = 1

(* C18: at the top of an iteration and during the delay SysTick interrupts *)
(* and the bus pins are enabled and the core is awake; each disable call    *)
(* finds its target enabled and each enable call finds it disabled.         *)
C18_DelayOnlyWithTicks ==
    /\ pc \in {"led_on", "delay", "delay_wait"} =>
           systickEnabled /\ spiPinsEnabled /\ power = "Active"
    /\ pc = "systick_off" => systickEnabled
    /\ pc = "spi_off" => spiPinsEnabled
    /\ pc = "spi_on" => ~spiPinsEnabled
    /\ pc = "systick_on" => ~systickEnabled

(* C18 witness: the delay is waiting for ticks in an iteration after a     *)
(* wake.                                                                    *)
C18_Witness ==
    pc = "delay_wait" /\ delayLeft > 0 /\ wokenBy # "none" /\ systickEnabled

(* C19: LED0 is off whenever the core is in EM2, and on only between       *)
(* led0(true) and led0(false).                                              *)
C19_LedOffInSleep ==
    /\ power = "Sleeping" => ~led0
    /\ led0 => pc \in {"delay", "delay_wait", "led_off"}

(* C19 witness: asleep with the flag set by a racing handler, LED off      *)
(* after its indication.                                                    *)
C19_Witness ==
    power = "Sleeping" /\ triggered /\ blinks = 1 /\ ~led0

=============================================================================
